---- MODULE Spec2Model ----
(***************************************************************************)
(* ProtectTimeshiftBuffer (src/src/protect-timeshift.ts): the livestream   *)
(* timeshift buffer of homebridge-unifi-protect, as a state machine.       *)
(*                                                                         *)
(* A byte block (Buffer) is a sequence of bytes; the store (_buffer) is a  *)
(* sequence of byte blocks.  The n-th segment the source delivers is the   *)
(* one-byte block <<n>>, the fMP4 initialization segment is <<0>>.         *)
(* Numbers that the code computes by real division (bufferSize, the slice  *)
(* start) are kept as exact fractions <<numerator, denominator>>.          *)
(***************************************************************************)
EXTENDS Integers, Sequences, FiniteSets, TLC

\* ------------------------------------------------------------------ bounds
\* Segments the source delivers in one behaviour.
MaxSegs == 4
\* Listeners of one kind this buffer may have attached to one livestream.
MaxListeners == 2
\* Durations handed to `set length` and getLast are multiples of half a
\* segment, from -HalfStep up to MaxLenSteps * HalfStep.
MaxLenSteps == 6

\* --------------------------------------------------------------- constants
PROTECT_HKSV_SEGMENT_RESOLUTION == 100

\* `undefined` (the lens of a camera that is no package camera).
UNDEF == -1
\* `null` (no livestream handle).
NoHandle == <<>>
\* `null` (a read that has nothing to return); no byte block equals it.
Null == <<-1>>

\* The selectors start() is called with: one channel of a camera that has no
\* secondary lens.
Channels == {0}
Lenses == {UNDEF}
\* The livestream handle acquire(channel, lens) hands out: one per selector.
Handles == {<<c, l>> : c \in Channels, l \in {UNDEF}} \cup {<<0, l>> : l \in Lenses \ {UNDEF}}
\* fragmentLength of the HKSV recording configuration (0: none available).
FragmentLengths == {0, 150, 4000}
HalfStep == PROTECT_HKSV_SEGMENT_RESOLUTION \div 2
Durations == {k * HalfStep : k \in (-1)..MaxLenSteps}

\* ------------------------------------------------------------ arithmetic
Abs(x) == IF x < 0 THEN -x ELSE x
Min(a, b) == IF a < b THEN a ELSE b
Max(a, b) == IF a > b THEN a ELSE b

RECURSIVE GCD(_, _)
GCD(a, b) == IF b = 0 THEN a ELSE GCD(b, a % b)

\* The number n / d (d > 0), in lowest terms.
Divide(n, d) == LET g == GCD(Abs(n), d) IN <<n \div g, d \div g>>
\* The number r * k.
Times(r, k) == Divide(r[1] * k, r[2])
\* n > r, n >= r, r <= 0 for an integer n and a number r.
IntGT(n, r) == n * r[2] > r[1]
IntGE(n, r) == n * r[2] >= r[1]
NonPositive(r) == r[1] <= 0
\* ToIntegerOrInfinity: truncation towards zero.
Trunc(r) == IF r[1] >= 0 THEN r[1] \div r[2] ELSE -((-r[1]) \div r[2])
\* Math.floor.
Floor(r) == r[1] \div r[2]

\* ------------------------------------------------------------ byte blocks
Segment(n) == <<n>>
InitSegmentBytes == <<0>>

\* Buffer.concat(list).
RECURSIVE BufferConcat(_)
BufferConcat(list) == IF list = <<>> THEN <<>> ELSE Head(list) \o BufferConcat(Tail(list))

\* Array.prototype.slice(start), start any number.
ArraySlice(a, start) ==
  LET rel == Trunc(start)
      k == IF rel < 0 THEN Max(Len(a) + rel, 0) ELSE Min(rel, Len(a))
  IN SubSeq(a, k + 1, Len(a))

\* The last n elements of a (all of a when it has fewer).
LastN(a, n) == SubSeq(a, Len(a) - Min(n, Len(a)) + 1, Len(a))

\* ------------------------------------------------------------------ state
VARIABLES
  _buffer,            \* the store: byte blocks, oldest first
  _channel,           \* recorded channel
  _isStarted,
  _isTransmitting,
  _lens,              \* recorded lens, or UNDEF
  _segmentLength,
  bufferSize,         \* segments to keep while buffering, a number
  livestream,         \* the acquired handle, or NoHandle
  closeHandlerOn,     \* the handle eventHandlers.close is attached to, or NoHandle
  segmentListeners,   \* per handle: how often eventHandlers.segment is attached
  closeListeners,     \* per handle: close handlers of this buffer attached
  initSegment,        \* per handle: whether the source exposes its initSegment
  nextSeg,            \* the number of the next segment the source delivers
  dispatch,           \* a "segment" event being delivered: listeners still to call
  pc,                 \* where the caller's async call is suspended, or "idle"
  call,               \* the async call in flight: its arguments and what it did so far
  emitted,            \* "segment" events this buffer emitted in the last step
  stops,              \* livestream.stop(channel, lens) requests made in the last step
  returned,           \* the call that returned in the last step, or NoReturn
  arrival,            \* the listener call of the last step and what it found, or NoArrival
  run,                \* history: the arrivals buffered since a start() left the store empty
  window              \* history: what was sent and what was due since transmitStart() succeeded

progVars == <<_buffer, _channel, _isStarted, _isTransmitting, _lens, _segmentLength,
              bufferSize, livestream, closeHandlerOn, segmentListeners, closeListeners>>
envVars == <<initSegment, nextSeg, dispatch>>
callVars == <<pc, call, emitted, stops, returned, arrival>>
histVars == <<run, window>>
vars == <<progVars, envVars, callVars, histVars>>

\* The object's fields (and what the step has sent out so far) as one value.
This ==
  [buffer |-> _buffer, channel |-> _channel, isStarted |-> _isStarted,
   isTransmitting |-> _isTransmitting, lens |-> _lens, segmentLength |-> _segmentLength,
   bufferSize |-> bufferSize, livestream |-> livestream, closeHandlerOn |-> closeHandlerOn,
   segmentListeners |-> segmentListeners, closeListeners |-> closeListeners,
   emitted |-> <<>>, stops |-> <<>>]

NoCall == [op |-> "none", channelId |-> 0, lens |-> UNDEF, available |-> FALSE,
           again |-> FALSE, startFailed |-> FALSE,
           initAbsent |-> FALSE, prepended |-> FALSE, setTransmitting |-> FALSE,
           emits |-> 0, recoveries |-> 0]
NoReturn == [op |-> "none"]
NoArrival == [segment |-> <<>>]
NoDispatch == [left |-> 0, segment |-> <<>>]
NoRun == [open |-> FALSE, capacity |-> 0, arrivals |-> <<>>]
NoWindow == [open |-> FALSE, ready |-> FALSE, sent |-> <<>>, due |-> <<>>]

\* ------------------------------------------------------------- operations
\* transmit() that leaves the store as it is.
transmitKeeps(o) == [o EXCEPT !.emitted = Append(@, BufferConcat(o.buffer))]

\* transmit(): one "segment" event with the whole store, then the store is empty.
transmit(o) ==
  [o EXCEPT !.emitted = Append(@, BufferConcat(o.buffer)), !.buffer = <<>>]

\* The listener with the oldest segment kept and the newest dropped on overflow.
segmentHandlerDropsNewest(o, segment) ==
  LET pushed == [o EXCEPT !.buffer = Append(@, segment)]
      floored == IF NonPositive(pushed.bufferSize)
                 THEN [pushed EXCEPT !.bufferSize = <<1, 1>>] ELSE pushed
      trimmed == IF ~floored.isTransmitting /\ IntGT(Len(floored.buffer), floored.bufferSize)
                 THEN [floored EXCEPT !.buffer = SubSeq(@, 1, Len(@) - 1)] ELSE floored
  IN IF trimmed.isTransmitting THEN transmit(trimmed) ELSE trimmed

\* The listener without the floor of one segment.
segmentHandlerNoFloor(o, segment) ==
  LET pushed == [o EXCEPT !.buffer = Append(@, segment)]
      trimmed == IF ~pushed.isTransmitting /\ IntGT(Len(pushed.buffer), pushed.bufferSize)
                 THEN [pushed EXCEPT !.buffer = Tail(@)] ELSE pushed
  IN IF trimmed.isTransmitting THEN transmit(trimmed) ELSE trimmed

\* eventHandlers.segment: one call of the "segment" listener.
segmentHandler(o, segment) ==
  LET pushed == [o EXCEPT !.buffer = Append(@, segment)]
      floored == IF NonPositive(pushed.bufferSize)
                 THEN [pushed EXCEPT !.bufferSize = <<1, 1>>] ELSE pushed
      trimmed == IF ~floored.isTransmitting /\ IntGT(Len(floored.buffer), floored.bufferSize)
                 THEN [floored EXCEPT !.buffer = Tail(@)] ELSE floored
  IN IF trimmed.isTransmitting THEN transmit(trimmed) ELSE trimmed

\* configureTimeshiftBuffer(): a new close handler and the segment handler go
\* onto the livestream (EventEmitter.on adds a listener again if it is there).
configureTimeshiftBuffer(o) ==
  IF o.livestream = NoHandle THEN o
  ELSE [o EXCEPT !.closeListeners[o.livestream] = @ + 1,
                 !.closeHandlerOn = o.livestream,
                 !.segmentListeners[o.livestream] = @ + 1]

\* The listener removal of stop(): off(name, eventHandlers[name]) for each name,
\* on this.livestream; off removes one attachment of that very function.
removeListeners(o) ==
  LET h == o.livestream IN
  IF h = NoHandle THEN o
  ELSE [o EXCEPT !.segmentListeners[h] = Max(@ - 1, 0),
                 !.closeListeners[h] = IF o.closeHandlerOn = h THEN @ - 1 ELSE @,
                 !.closeHandlerOn = IF @ = h THEN NoHandle ELSE @]

\* stop().
stop(o) ==
  LET off == IF o.isStarted
             THEN removeListeners([o EXCEPT !.stops = Append(@, <<o.channel, o.lens>>)])
             ELSE o
  IN [off EXCEPT !.buffer = <<>>, !.isStarted = FALSE]

\* The segment resolution start() keeps: the default when the current one is
\* out of range for the recording configuration.
validSegmentLength(len, fragmentLength) ==
  IF fragmentLength # 0 /\ (len < 100 \/ len > 1500 \/ 2 * len > fragmentLength)
  THEN PROTECT_HKSV_SEGMENT_RESOLUTION ELSE len

\* start(), up to the await of livestream.start(); acquired is what acquire() gave.
startBegin(o, fragmentLength, acquired) ==
  LET stopped == IF o.isStarted THEN stop(o) ELSE o
      cleared == [stopped EXCEPT
                    !.segmentLength = validSegmentLength(@, fragmentLength),
                    !.buffer = <<>>,
                    !.livestream = acquired]
  IN IF acquired = NoHandle THEN cleared ELSE configureTimeshiftBuffer(cleared)

\* start(), after the await: ok is what livestream.start() resolved to.
startEnd(o, ok, channelId, lens) ==
  IF ok THEN [o EXCEPT !.channel = channelId, !.lens = lens, !.isStarted = TRUE] ELSE o

\* this.livestream?.initSegment is there.
hasInitSegment(o) == o.livestream # NoHandle /\ initSegment[o.livestream]

\* transmitStart() that sends nothing when the session transmits already.
transmitBeginOnce(o) ==
  IF o.isTransmitting THEN o
  ELSE [transmit([o EXCEPT !.buffer = <<InitSegmentBytes>> \o @]) EXCEPT !.isTransmitting = TRUE]

\* transmitStart() once it holds the initialization segment.
transmitBegin(o) ==
  [transmit([o EXCEPT !.buffer = <<InitSegmentBytes>> \o @]) EXCEPT !.isTransmitting = TRUE]

\* The buffer accessor without the test for the initialization segment.
bufferUnchecked(o) ==
  IF Len(o.buffer) # 0 THEN BufferConcat(<<InitSegmentBytes>> \o o.buffer) ELSE Null

\* get buffer.
buffer(o) ==
  IF hasInitSegment(o) /\ Len(o.buffer) # 0
  THEN BufferConcat(<<InitSegmentBytes>> \o o.buffer) ELSE Null

\* getLast(duration).
getLast(o, duration) ==
  LET start == Divide(duration, o.segmentLength) IN
  IF ~IntGT(Len(o.buffer), start) THEN buffer(o)
  ELSE IF hasInitSegment(o) /\ Len(o.buffer) # 0
       THEN BufferConcat(<<InitSegmentBytes>> \o ArraySlice(o.buffer, start)) ELSE Null

\* get length.
length(o) == Times(o.bufferSize, o.segmentLength)

\* set length.
setLength(o, bufferMillis) == [o EXCEPT !.bufferSize = Divide(bufferMillis, o.segmentLength)]

\* ----------------------------------------------------------------- steps
\* The fields after a step, and what the step did to the caller's call.
Commit(o, npc, ncall, ret, arr) ==
  /\ _buffer' = o.buffer
  /\ _channel' = o.channel
  /\ _isStarted' = o.isStarted
  /\ _isTransmitting' = o.isTransmitting
  /\ _lens' = o.lens
  /\ _segmentLength' = o.segmentLength
  /\ bufferSize' = o.bufferSize
  /\ livestream' = o.livestream
  /\ closeHandlerOn' = o.closeHandlerOn
  /\ segmentListeners' = o.segmentListeners
  /\ closeListeners' = o.closeListeners
  /\ emitted' = o.emitted
  /\ stops' = o.stops
  /\ pc' = npc
  /\ call' = ncall
  /\ returned' = ret
  /\ arrival' = arr

\* A synchronous step leaves the call in flight where it is.
Sync(o) == Commit(o, pc, call, NoReturn, NoArrival)

\* A call of the segment listener does, and leaves a record of what it found.
Listens(o, segment) ==
  Commit(o, pc, call, NoReturn,
         [segment |-> segment, store |-> _buffer, size |-> bufferSize,
          transmitting |-> _isTransmitting, resumed |-> returned.op = "transmitStop"])

\* What is known of a call when it returns value.
Returns(c, value) == [op |-> c.op, value |-> value, available |-> c.available,
                      again |-> c.again, startFailed |-> c.startFailed,
                      initAbsent |-> c.initAbsent, prepended |-> c.prepended,
                      setTransmitting |-> c.setTransmitting, emits |-> c.emits,
                      recoveries |-> c.recoveries]

\* transmitStart() without the call of nvr.resetNvrConnection().
resetNvrConnectionSkipped(c) == c

\* nvr.resetNvrConnection() is called.
resetNvrConnection(c) == [c EXCEPT !.recoveries = @ + 1]

\* ---------------------------------------------------------------- history
\* A start() has returned true: a run of buffered arrivals begins if the store
\* is empty, the session buffers and the capacity is a whole number >= 1.
RunBegins(o) ==
  IF o.buffer = <<>> /\ ~o.isTransmitting /\ o.bufferSize[2] = 1 /\ o.bufferSize[1] >= 1
  THEN [open |-> TRUE, capacity |-> o.bufferSize[1], arrivals |-> <<>>]
  ELSE NoRun
\* The segment listener has been called with segment.
RunArrival(segment) ==
  IF run.open /\ ~_isTransmitting THEN [run EXCEPT !.arrivals = Append(@, segment)] ELSE NoRun
\* The length has been set.
RunLength(o) == IF o.bufferSize = bufferSize THEN run ELSE NoRun

\* transmitStart() has prepended the initialization segment to the store of o.
WindowBegins(o, c) ==
  [open |-> TRUE, ready |-> c.available, sent |-> BufferConcat(transmitBegin(o).emitted),
   due |-> InitSegmentBytes \o BufferConcat(o.buffer)]
\* A step that ends no window: what it emitted was sent, what arrived is due.
WindowStep(o, arrived) ==
  IF window.open
  THEN [window EXCEPT !.sent = @ \o BufferConcat(o.emitted), !.due = @ \o arrived]
  ELSE window

Quiet == dispatch.left = 0
Idle == Quiet /\ pc = "idle"

\* ------------------------------------------------------------ the caller
\* What acquire(channelId, lens) may give start(): the selector's handle, or
\* nothing.  (The handle is given only while it has room for the listeners
\* start() attaches once its stop() has run: the bound of the model.)
Acquired(channelId, lens) ==
  LET o == IF _isStarted THEN stop(This) ELSE This IN
  {NoHandle} \cup {h \in {<<channelId, lens>>} :
                     /\ o.segmentListeners[h] < MaxListeners
                     /\ o.closeListeners[h] < MaxListeners}

\* start(channelId, lens) is called; it returns false when nothing is acquired
\* and is suspended in livestream.start() otherwise.
Start(channelId, lens, fragmentLength) ==
  /\ Idle
  /\ LET ch == IF lens # UNDEF THEN 0 ELSE channelId
         c == [NoCall EXCEPT !.op = "start", !.channelId = ch, !.lens = lens]
     IN \E acquired \in Acquired(ch, lens) :
          LET o == startBegin(This, fragmentLength, acquired) IN
          IF acquired = NoHandle
          THEN Commit(o, "idle", NoCall, Returns([c EXCEPT !.startFailed = TRUE], FALSE), NoArrival)
          ELSE Commit(o, "startAwait", c, NoReturn, NoArrival)
  /\ run' = NoRun
  /\ window' = IF _isStarted THEN NoWindow ELSE window
  /\ UNCHANGED envVars

\* transmitStart() from the point where the livestream is started: it takes
\* the initialization segment if it is there and sleeps otherwise.
transmitResolve(o, c, r) ==
  IF hasInitSegment(o)
  THEN /\ Commit(transmitBegin(o), "idle", NoCall,
                 Returns([c EXCEPT !.prepended = TRUE, !.setTransmitting = TRUE,
                                   !.emits = @ + 1], TRUE), NoArrival)
       /\ run' = NoRun
       /\ window' = WindowBegins(o, c)
  ELSE /\ Commit(o, "initSleep", c, NoReturn, NoArrival)
       /\ run' = r
       /\ window' = window

\* transmitStart() is called.
TransmitStart(fragmentLength) ==
  /\ Idle
  /\ LET ch == IF _lens # UNDEF THEN 0 ELSE _channel
         known == initSegment[<<ch, _lens>>]
         c == [NoCall EXCEPT !.op = "transmitStart", !.lens = _lens, !.channelId = ch,
                             !.available = known,
                             !.again = known /\ window.open /\ window.ready]
     IN IF _isStarted THEN transmitResolve(This, c, run)
        ELSE /\ \E acquired \in Acquired(c.channelId, c.lens) :
                  LET o == startBegin(This, fragmentLength, acquired) IN
                  IF acquired = NoHandle
                  THEN Commit(o, "resetAwait",
                              resetNvrConnection([c EXCEPT !.startFailed = TRUE]), NoReturn, NoArrival)
                  ELSE Commit(o, "startAwait", c, NoReturn, NoArrival)
             /\ run' = NoRun
             /\ window' = window
  /\ UNCHANGED envVars

\* livestream.start() resolves to ok and the suspended start() goes on.
LivestreamStarted(ok) ==
  /\ Quiet /\ pc = "startAwait"
  /\ LET o == startEnd(This, ok, call.channelId, call.lens)
         r == IF ok THEN RunBegins(o) ELSE run
     IN IF call.op = "start"
        THEN /\ Commit(o, "idle", NoCall, Returns([call EXCEPT !.startFailed = ~ok], ok), NoArrival)
             /\ run' = r
             /\ window' = window
        ELSE IF ok THEN transmitResolve(o, call, r)
             ELSE /\ Commit(o, "resetAwait",
                            resetNvrConnection([call EXCEPT !.startFailed = TRUE]), NoReturn, NoArrival)
                  /\ run' = r
                  /\ window' = window
  /\ UNCHANGED envVars

\* The sleep of getInitSegment() is over: one more look at the initialization segment.
SleepOver ==
  /\ Quiet /\ pc = "initSleep"
  /\ IF hasInitSegment(This)
     THEN /\ Commit(transmitBegin(This), "idle", NoCall,
                    Returns([call EXCEPT !.prepended = TRUE, !.setTransmitting = TRUE,
                                         !.emits = @ + 1], TRUE), NoArrival)
          /\ run' = NoRun
          /\ window' = WindowBegins(This, call)
     ELSE /\ Commit(This, "resetAwait",
                    resetNvrConnection([call EXCEPT !.initAbsent = TRUE]), NoReturn, NoArrival)
          /\ UNCHANGED histVars
  /\ UNCHANGED envVars

\* nvr.resetNvrConnection() is done and transmitStart() returns false.
ResetOver ==
  /\ Quiet /\ pc = "resetAwait"
  /\ Commit(This, "idle", NoCall, Returns(call, FALSE), NoArrival)
  /\ UNCHANGED <<envVars, histVars>>

\* stop() is called; it returns true.
Stop ==
  /\ Quiet
  /\ Commit(stop(This), pc, call, [op |-> "stop", value |-> TRUE, before |-> This], NoArrival)
  /\ run' = NoRun
  /\ window' = NoWindow
  /\ UNCHANGED envVars

\* transmitStop() is called; it returns true.
TransmitStop ==
  /\ Quiet
  /\ Commit([This EXCEPT !.isTransmitting = FALSE], pc, call,
            [op |-> "transmitStop", value |-> TRUE, before |-> This], NoArrival)
  /\ run' = run
  /\ window' = NoWindow
  /\ UNCHANGED envVars

\* The length is set.
SetLength(bufferMillis) ==
  /\ Quiet
  /\ LET o == setLength(This, bufferMillis) IN Sync(o) /\ run' = RunLength(o)
  /\ window' = window
  /\ UNCHANGED envVars

\* getLast(duration) is called.
GetLast(duration) ==
  /\ Quiet
  /\ Commit(This, pc, call,
            [op |-> "getLast", value |-> getLast(This, duration), before |-> This],
            NoArrival)
  /\ UNCHANGED <<envVars, histVars>>

\* The buffer is read.
GetBuffer ==
  /\ Quiet
  /\ Commit(This, pc, call, [op |-> "buffer", value |-> buffer(This), before |-> This],
            NoArrival)
  /\ UNCHANGED <<envVars, histVars>>

\* ------------------------------------------------------------ the source
\* The source delivers its next segment on handle h: the first listener runs.
SourceSegment(h) ==
  /\ Quiet
  /\ nextSeg <= MaxSegs
  /\ segmentListeners[h] > 0
  /\ LET o == segmentHandler(This, Segment(nextSeg)) IN
       Listens(o, Segment(nextSeg)) /\ window' = WindowStep(o, Segment(nextSeg))
  /\ run' = RunArrival(Segment(nextSeg))
  /\ dispatch' = [left |-> segmentListeners[h] - 1, segment |-> Segment(nextSeg)]
  /\ nextSeg' = nextSeg + 1
  /\ UNCHANGED initSegment

\* The next listener of the segment being delivered runs.
NextListener ==
  /\ dispatch.left > 0
  /\ LET o == segmentHandler(This, dispatch.segment) IN
       Listens(o, dispatch.segment) /\ window' = WindowStep(o, <<>>)
  /\ run' = RunArrival(dispatch.segment)
  /\ dispatch' = IF dispatch.left = 1 THEN NoDispatch ELSE [dispatch EXCEPT !.left = @ - 1]
  /\ UNCHANGED <<initSegment, nextSeg>>

RECURSIVE stopTimes(_, _)
stopTimes(o, n) == IF n = 0 THEN o ELSE stopTimes(stop(o), n - 1)

\* The source closes handle h: every close handler attached to it calls stop().
SourceClose(h) ==
  /\ Quiet
  /\ closeListeners[h] > 0
  /\ Commit(stopTimes(This, closeListeners[h]), pc, call,
            [op |-> "close", before |-> This], NoArrival)
  /\ run' = NoRun
  /\ window' = NoWindow
  /\ UNCHANGED envVars

\* The source has received the initialization segment of handle h.
SourceInitSegment(h) ==
  /\ Quiet
  /\ ~initSegment[h]
  /\ initSegment' = [initSegment EXCEPT ![h] = TRUE]
  /\ Sync(This)
  /\ UNCHANGED <<nextSeg, dispatch, histVars>>

Init ==
  /\ _buffer = <<>>
  /\ _isStarted = FALSE
  /\ _isTransmitting = FALSE
  /\ bufferSize = <<1, 1>>
  /\ _channel = 0
  /\ _lens \in Lenses
  /\ livestream = NoHandle
  /\ _segmentLength = PROTECT_HKSV_SEGMENT_RESOLUTION
  /\ closeHandlerOn = NoHandle
  /\ segmentListeners = [h \in Handles |-> 0]
  /\ closeListeners = [h \in Handles |-> 0]
  /\ initSegment = [h \in Handles |-> FALSE]
  /\ nextSeg = 1
  /\ dispatch = NoDispatch
  /\ pc = "idle"
  /\ call = NoCall
  /\ emitted = <<>>
  /\ stops = <<>>
  /\ returned = NoReturn
  /\ arrival = NoArrival
  /\ run = NoRun
  /\ window = NoWindow

Next ==
  \/ \E c \in Channels, l \in Lenses, f \in FragmentLengths : Start(c, l, f)
  \/ \E f \in FragmentLengths : TransmitStart(f)
  \/ \E ok \in BOOLEAN : LivestreamStarted(ok)
  \/ SleepOver
  \/ ResetOver
  \/ Stop
  \/ TransmitStop
  \/ \E ms \in Durations : SetLength(ms)
  \/ \E h \in Handles : SourceSegment(h)
  \/ NextListener
  \/ \E h \in Handles : SourceClose(h)
  \/ \E h \in Handles : SourceInitSegment(h)

Spec == Init /\ [][Next]_vars

\* The same program with a reader that calls getLast and the buffer accessor.
ReadNext ==
  \/ Next
  \/ \E d \in Durations : GetLast(d)
  \/ GetBuffer

ReadSpec == Init /\ [][ReadNext]_vars

\* ------------------------------------------------------------- properties
\* The Retention Capacity: the configured length over the segment duration,
\* floored, and at least 1.
RetentionCapacity == Max(Floor(bufferSize), 1)

\* C1: whenever the session is not transmitting and no listener call is in the
\* middle of its work, the store holds at most Retention Capacity segments; here
\* at the states where the eviction has just run: right after a listener call
\* that found the session buffering.
C1_StoreWithinCapacity ==
  (arrival # NoArrival /\ ~arrival.transmitting /\ ~_isTransmitting) =>
    Len(_buffer) <= RetentionCapacity

C3_ArrivalRetained ==
  (arrival # NoArrival /\ ~arrival.transmitting) =>
    (_buffer # <<>> /\ _buffer[Len(_buffer)] = arrival.segment)

\* What an arrival makes of store under capacity 1: the arrival is appended
\* and, if that makes more than one segment, the oldest is removed.
CapacityOne(store, segment) ==
  LET pushed == Append(store, segment) IN IF Len(pushed) > 1 THEN Tail(pushed) ELSE pushed

Unknown == ~hasInitSegment(This)

\* C5: with the initialization segment known and n segments stored, getLast
\* with a duration covering k segments, 0 < k < n, returns the initialization
\* segment followed by the last k stored segments.
C5_LastSegments ==
  \A d \in Durations :
    LET k == Floor(Divide(d, _segmentLength)) IN
    (hasInitSegment(This) /\ 0 < k /\ k < Len(_buffer)) =>
      getLast(This, d) = InitSegmentBytes \o BufferConcat(LastN(_buffer, k))

\* C6: getLast with a duration of at least the configured length returns what
\* the buffer accessor returns, null included.
C6_WholeBuffer ==
  \A d \in Durations : IntGE(d, length(This)) => getLast(This, d) = buffer(This)

\* C7: with the initialization segment unknown, or the store empty, the buffer
\* accessor and getLast (for every duration) return null, and a read changes
\* neither the store nor the session's fields.
C7_NullWithoutInit ==
  /\ (Unknown \/ _buffer = <<>>) =>
       /\ buffer(This) = Null
       /\ \A d \in Durations : getLast(This, d) = Null
       /\ returned.op \in {"getLast", "buffer"} => returned.value = Null
  /\ returned.op \in {"getLast", "buffer"} => returned.before = This

\* A read found segments in the store and no initialization segment.
C7_Witness ==
  returned.op \in {"getLast", "buffer"} /\ Unknown /\ Len(_buffer) >= 2 /\ returned.value = Null

C9_SentIsDue == (window.open /\ Quiet) => window.sent = window.due

C11_TransmittingImpliesStarted == _isTransmitting => _isStarted

\* C12: every "segment" event this buffer emits comes from a transmitStart()
\* that returns true, or from an arrival after such a transmitStart() with no
\* transmitStop(), stop() or close since; so after a stop() and a successful
\* start() arrivals are kept and nothing goes out.
C12_EmitsOnlyInWindow ==
  emitted # <<>> =>
    \/ returned.op = "transmitStart" /\ returned.value = TRUE
    \/ arrival # NoArrival /\ window.open

\* C13: whatever start() calls (successful or failed), stop() calls and close
\* events came before, at most one "segment" listener of this buffer is on a
\* source handle, so no arrival is handed to a second listener.
C13_SingleSegmentListener ==
  /\ \A h \in Handles : segmentListeners[h] <= 1
  /\ dispatch.left = 0

\* C14: a start() that acquired a livestream whose start request then failed
\* returns false, leaves the session not started, and leaves neither a
\* "segment" nor a "close" listener of this buffer on that livestream.
C14_FailedStartDetaches ==
  (returned.op = "start" /\ returned.startFailed /\ livestream # NoHandle) =>
    /\ returned.value = FALSE
    /\ ~_isStarted
    /\ segmentListeners[livestream] = 0
    /\ closeListeners[livestream] = 0

\* C15: when a stop() call has returned, no listener of this buffer, "segment"
\* or "close", is left on any source handle, and the store is empty; with no
\* listener left no source event can change the store before the next start().
C15_StopDetachesAll ==
  returned.op = "stop" =>
    /\ \A h \in Handles : segmentListeners[h] = 0 /\ closeListeners[h] = 0
    /\ _buffer = <<>>

\* C16: stop() called while the session is not started returns true and
\* changes nothing: the store, the flags, the attached listeners and the
\* other fields are as before, and the source gets no stop request; also
\* while a start() is suspended and segments have been appended.
C16_StopNotStartedNoOp ==
  (returned.op = "stop" /\ ~returned.before.isStarted) =>
    /\ returned.value = TRUE
    /\ This = returned.before
    /\ stops = <<>>

\* C17: a transmitStart() made with the initialization segment known returns
\* true only with the session started and transmitting; a second one, made
\* after such a call returned true with no transmitStop(), stop(), close or
\* start() since, returns true too, leaves both flags set, emits exactly one
\* event, the initialization segment followed by what the store held, and
\* leaves the store empty.
C17_TransmitStartTwice ==
  /\ (returned.op = "transmitStart" /\ returned.available /\ returned.value = TRUE) =>
       _isStarted /\ _isTransmitting
  /\ (returned.op = "transmitStart" /\ returned.again) =>
       /\ returned.value = TRUE
       /\ _isStarted /\ _isTransmitting
       /\ returned.emits = 1
       /\ emitted = <<window.due>>
       /\ _buffer = <<>>

\* The second transmitStart() in a row has returned, with segments sent out
\* between the two calls.
C17_Witness ==
  /\ returned.op = "transmitStart" /\ returned.again /\ returned.value = TRUE
  /\ emitted = <<InitSegmentBytes>>
  /\ nextSeg > 2

\* C18: right after the source's "close" was handled on a started session the
\* session is not started, the store is empty, the source has been asked once
\* to stop the recorded channel and lens, and no "segment" or "close" listener
\* of this buffer is left on a handle, so that later events change nothing.
C18_CloseStops ==
  (returned.op = "close" /\ returned.before.isStarted) =>
    /\ ~_isStarted
    /\ _buffer = <<>>
    /\ stops = << <<returned.before.channel, returned.before.lens>> >>
    /\ \A h \in Handles : segmentListeners[h] = 0 /\ closeListeners[h] = 0

\* C19: a transmitStart() that returns true leaves the session started when
\* it returns, however stop() and "close" fell between its suspension points;
\* a call that finds the session torn down sets no transmitting flag and
\* emits no event.
C19_TransmitStartOnLiveSession ==
  returned.op = "transmitStart" =>
    /\ returned.value = TRUE => _isStarted
    /\ ~_isStarted => (~returned.setTransmitting /\ emitted = <<>>)

\* C20: transmitStop() returns true, clears the transmitting flag, emits
\* nothing and leaves every other field (store, started flag, channel, lens,
\* capacity, listeners) as it was; the arrival handled next is appended and,
\* if the store then exceeds the Retention Capacity, the oldest segment is
\* evicted, and nothing is emitted.
C20_TransmitStopOnlyFlag ==
  /\ returned.op = "transmitStop" =>
       /\ returned.value = TRUE
       /\ This = [returned.before EXCEPT !.isTransmitting = FALSE]
       /\ emitted = <<>> /\ stops = <<>>
  /\ (arrival # NoArrival /\ arrival.resumed) =>
       /\ emitted = <<>>
       /\ LET pushed == Append(arrival.store, arrival.segment) IN
            _buffer = IF Len(pushed) > RetentionCapacity THEN Tail(pushed) ELSE pushed

====
